---- MODULE Spec2Model ----
(***************************************************************************)
(* A model of src/statespace.py: the StateSpace base class and its one     *)
(* concrete realization EnumStateSpace, whose scalars are members of an    *)
(* enumeration and whose update() increments one scalar cyclically.        *)
(*                                                                         *)
(* One instance is modelled (the module-level `bar`).  Its three fields    *)
(* are the variables basis_elements, scalars and enum_states.              *)
(***************************************************************************)
EXTENDS Integers, Sequences, FiniteSets, TLC

\* Longest basis_elements argument handed to the constructor.
MaxBasis == 2
\* Longest enum_states argument handed to the constructor.
MaxEnum == 3

VARIABLES
    python,          \* the interpreter the program runs on (fixed for a run)
    pc,              \* "start": not constructed; "live": instance bound;
                     \* "failed": the constructor raised, nothing is bound
    basis_elements,  \* self.basis_elements: tuple of stringified names
    scalars,         \* self.scalars: dict, name -> scalar object
    enum_states,     \* self.enum_states: the Enum class, as its member names
                     \* in definition order (member i has value i, start=0)
    last,            \* the latest call: what was called, and how it ended
    run,             \* history: the current run of updates of one element
    count,           \* history: per name, the update() calls completed on it
    lock,            \* the embedding system's lock: its holder, or "free"
    thread           \* per thread of the embedding system: the call it is in

vars == <<python, pc, basis_elements, scalars, enum_states, last, run, count, lock, thread>>

(***************************************************************************)
(* Python objects.                                                         *)
(***************************************************************************)

\* The interpreters whose enum module behaves differently on the two places
\* the program depends on it: calling an Enum that has no members, and the
\* containment test `x in EnumClass` for an x that is no Enum member.
Pythons == {"3.10", "3.11", "3.12"}

\* Raw basis-element identifiers (str | int | float), tagged by their type.
StrId(s) == <<"str", s>>
IntId(n) == <<"int", n>>
IdPool == {StrId("e1"), StrId("e2"), StrId("3"), IntId(3)}

\* str(e): a str is itself, an int is its decimal numeral.
Str(e) == IF e[1] = "str" THEN e[2] ELSE ToString(e[2])

\* Objects a scalar slot can hold.  A member of self.enum_states has class
\* "scalar_states"; an int is a bare integer (it has no .name and no .value);
\* a member of some other Enum class has class "other".
Member(enum, i) == [cls |-> "scalar_states", name |-> enum[i + 1], value |-> i]
IntObj(n) == [cls |-> "int", name |-> "", value |-> n]
OtherMember == [cls |-> "other", name |-> "x", value |-> 0]

\* len(self.enum_states)
EnumLen(enum) == Len(enum)

\* The members of the Enum class.
Members(enum) == {Member(enum, i) : i \in 0 .. EnumLen(enum) - 1}

\* Is v an index of the enumeration, i.e. the value of one of its members?
IsIndex(enum, v) == v \in 0 .. EnumLen(enum) - 1


\* The object a call yields when it raised instead.
NoObj == [cls |-> "NoneType", name |-> "", value |-> 0]

\* self.enum_states(v): the member whose value is v.  An Enum without members
\* cannot be called for a member at all (TypeError from 3.11 on, ValueError
\* before); a v that is the value of no member is a ValueError.
EnumCall(py, enum, v) ==
    IF IsIndex(enum, v) THEN [exc |-> "none", obj |-> Member(enum, v)]
    ELSE IF EnumLen(enum) = 0 /\ py # "3.10" THEN [exc |-> "TypeError", obj |-> NoObj]
    ELSE [exc |-> "ValueError", obj |-> NoObj]

\* x in self.enum_states.  A member of the class is in it and a member of
\* another Enum class is not.  For an x that is no Enum member at all, Python
\* before 3.12 raises TypeError; from 3.12 on the test is whether x is the
\* value of a member.
Contains(py, enum, x) ==
    IF x.cls = "scalar_states" THEN (IF x \in Members(enum) THEN "True" ELSE "False")
    ELSE IF x.cls = "other" THEN "False"
    ELSE IF py = "3.12" THEN (IF IsIndex(enum, x.value) THEN "True" ELSE "False")
    ELSE "TypeError"

(***************************************************************************)
(* Constructor arguments.                                                  *)
(***************************************************************************)

Label(i) == "state" \o ToString(i)
Forward(n) == [i \in 1 .. n |-> Label(i - 1)]
Backward(n) == [i \in 1 .. n |-> Label(n - i)]

\* enum_states arguments: lists of distinct labels, in two orders, the empty
\* list included.
EnumChoices == {Forward(n) : n \in 0 .. MaxEnum} \cup {Backward(n) : n \in 0 .. MaxEnum}

\* basis_elements arguments: lists of identifiers, duplicates and the empty
\* list included.
BasisChoices == UNION {[1 .. n -> IdPool] : n \in 0 .. MaxBasis}

\* *args handed to update() and resolve().
ExtraArgs == {<<>>, <<"x">>}

(***************************************************************************)
(* StateSpace.__init__ and EnumStateSpace.__init__                         *)
(***************************************************************************)

\* stringified_elements, as a tuple
Stringify(basis) == [i \in 1 .. Len(basis) |-> Str(basis[i])]

Range(seq) == {seq[i] : i \in 1 .. Len(seq)}

\* {key: value for key in self.basis_elements}: one entry per distinct name
DictOf(elems, value) == [key \in Range(elems) |-> value]

\* The keys of self.scalars in the dict's iteration order: the order of first
\* occurrence in self.basis_elements.
RECURSIVE KeyOrder(_)
KeyOrder(elems) ==
    IF elems = <<>> THEN <<>>
    ELSE LET front == KeyOrder(SubSeq(elems, 1, Len(elems) - 1))
             e == elems[Len(elems)]
         IN IF e \in Range(front) THEN front ELSE Append(front, e)

\* The constructor without its last statement (line 148): the scalars stay the
\* ints the base class stored.
InitResultKeepZeros(py, basis, enum_arg) ==
    LET elems == Stringify(basis)
        origin_state == EnumCall(py, enum_arg, 0)
    IN [exc |-> origin_state.exc, basis_elements |-> elems,
        scalars |-> DictOf(elems, IntObj(0)), enum_states |-> enum_arg]

\* The constructor taking the origin to be the first label when there is one
\* and handing out the instance as the base class left it when there is none.
InitResultNoLookup(py, basis, enum_arg) ==
    LET elems == Stringify(basis)
    IN [exc |-> "none", basis_elements |-> elems,
        scalars |-> IF enum_arg = <<>> THEN DictOf(elems, IntObj(0))
                    ELSE DictOf(elems, Member(enum_arg, 0)),
        enum_states |-> enum_arg]

\* The constructor: what it raises, and the fields of the instance it leaves.
\* The base class sets every scalar to the int 0; the subclass builds the Enum,
\* looks up its first member and sets every scalar to it.
InitResult(py, basis, enum_arg) ==
    LET elems == Stringify(basis)
        zeros == DictOf(elems, IntObj(0))
        origin_state == EnumCall(py, enum_arg, 0)
    IN IF origin_state.exc # "none"
       THEN [exc |-> origin_state.exc, basis_elements |-> elems,
             scalars |-> zeros, enum_states |-> enum_arg]
       ELSE [exc |-> "none", basis_elements |-> elems,
             scalars |-> DictOf(elems, origin_state.obj), enum_states |-> enum_arg]

(***************************************************************************)
(* EnumStateSpace.check, update, resolve                                   *)
(***************************************************************************)

\* check(): walk the dict in order; the first scalar that is not in the Enum
\* ends the walk with False (or with the containment test's TypeError).
RECURSIVE CheckFrom(_, _, _, _, _)
CheckFrom(py, enum, sc, keys, i) ==
    IF i > Len(keys) THEN [ret |-> "True", exc |-> "none"]
    ELSE LET c == Contains(py, enum, sc[keys[i]])
         IN IF c = "TypeError" THEN [ret |-> "", exc |-> "TypeError"]
            ELSE IF c = "False" THEN [ret |-> "False", exc |-> "none"]
            ELSE CheckFrom(py, enum, sc, keys, i + 1)

\* check() putting every scalar it finds outside the Enum back to the origin.
CheckResultRepair(py, enum, elems, sc) ==
    LET r == CheckFrom(py, enum, sc, KeyOrder(elems), 1)
    IN [ret |-> r.ret, exc |-> r.exc,
        scalars |-> [key \in DOMAIN sc |->
                        IF sc[key] \in Members(enum) THEN sc[key] ELSE Member(enum, 0)]]

CheckResult(py, enum, elems, sc) ==
    LET r == CheckFrom(py, enum, sc, KeyOrder(elems), 1)
    IN [ret |-> r.ret, exc |-> r.exc, scalars |-> sc]

\* The increment that stops at the last index instead of rolling over.
NextValueSaturate(int_value, total_states) ==
    IF int_value + 1 >= total_states THEN int_value ELSE int_value + 1

\* The increment that steps backwards through the cycle.
NextValueBack(int_value, total_states) == (int_value + total_states - 1) % total_states

\* The increment left out: the index is stored back as it was read.
NextValueStay(int_value, total_states) == int_value % total_states

\* (int_value + 1) % total_states
NextValue(int_value, total_states) == (int_value + 1) % total_states

\* update() storing new_value itself, not the member it names (line 172 skipped).
UpdateResultRaw(py, enum, sc, basis_element) ==
    LET basis_elem == Str(basis_element)
    IN IF basis_elem \notin DOMAIN sc THEN [exc |-> "KeyError", scalars |-> sc]
       ELSE IF sc[basis_elem].cls = "int" THEN [exc |-> "AttributeError", scalars |-> sc]
       ELSE [exc |-> "none",
             scalars |-> [sc EXCEPT ![basis_elem] =
                             IntObj((sc[basis_elem].value + 1) % EnumLen(enum))]]

\* update() incrementing every scalar, not only the selected one.
UpdateResultAll(py, enum, sc, basis_element) ==
    LET basis_elem == Str(basis_element)
    IN IF basis_elem \notin DOMAIN sc THEN [exc |-> "KeyError", scalars |-> sc]
       ELSE IF \E key \in DOMAIN sc : sc[key].cls = "int"
            THEN [exc |-> "AttributeError", scalars |-> sc]
       ELSE [exc |-> "none",
             scalars |-> [key \in DOMAIN sc |->
                             Member(enum, (sc[key].value + 1) % EnumLen(enum))]]

\* update() reading the dict with a default, so that an unknown name gets an
\* entry instead of a KeyError.
UpdateResultSetDefault(py, enum, sc, basis_element) ==
    LET basis_elem == Str(basis_element)
        int_value == IF basis_elem \in DOMAIN sc THEN sc[basis_elem].value ELSE 0
        new_state == Member(enum, (int_value + 1) % EnumLen(enum))
    IN IF basis_elem \in DOMAIN sc /\ sc[basis_elem].cls = "int"
       THEN [exc |-> "AttributeError", scalars |-> sc]
       ELSE [exc |-> "none",
             scalars |-> [key \in DOMAIN sc \cup {basis_elem} |->
                             IF key = basis_elem THEN new_state ELSE sc[key]]]

\* update() looking its argument up as given, not as str(basis_element)
\* (line 168 left out): only a str can name an entry.
UpdateResultNoStr(py, enum, sc, basis_element) ==
    IF basis_element[1] # "str" \/ basis_element[2] \notin DOMAIN sc
    THEN [exc |-> "KeyError", scalars |-> sc]
    ELSE [exc |-> "none",
          scalars |-> [sc EXCEPT ![basis_element[2]] =
                          Member(enum, (sc[basis_element[2]].value + 1) % EnumLen(enum))]]

\* update(basis_element): what it raises, and self.scalars after it.
UpdateResult(py, enum, sc, basis_element) ==
    LET total_states == EnumLen(enum)
        basis_elem == Str(basis_element)
    IN IF basis_elem \notin DOMAIN sc THEN [exc |-> "KeyError", scalars |-> sc]
       ELSE LET scalar_state == sc[basis_elem]
            IN IF scalar_state.cls = "int" THEN [exc |-> "AttributeError", scalars |-> sc]
               ELSE LET new_state == EnumCall(py, enum, NextValue(scalar_state.value, total_states))
                    IN IF new_state.exc # "none" THEN [exc |-> new_state.exc, scalars |-> sc]
                       ELSE [exc |-> "none",
                             scalars |-> [sc EXCEPT ![basis_elem] = new_state.obj]]

\* resolve() collapsing: every scalar becomes the least one held.
ResolveResultCollapse(sc, args) ==
    IF DOMAIN sc = {} THEN [ret |-> "None", exc |-> "none", scalars |-> sc]
    ELSE LET least == CHOOSE key \in DOMAIN sc :
                          \A other \in DOMAIN sc : sc[key].value <= sc[other].value
         IN [ret |-> "None", exc |-> "none",
             scalars |-> [key \in DOMAIN sc |-> sc[least]]]

\* resolve(*args, **kwargs): returns None and touches nothing.
ResolveResult(sc, args) == [ret |-> "None", exc |-> "none", scalars |-> sc]

\* sep.join(terms)
RECURSIVE Join(_, _)
Join(terms, sep) ==
    IF terms = <<>> THEN ""
    ELSE IF Len(terms) = 1 THEN terms[1]
    ELSE terms[1] \o sep \o Join(Tail(terms), sep)

\* __str__ as the base class has it: the scalar's value before each name.
StrResultIndex(elems, sc) ==
    [ret |-> Join([i \in 1 .. Len(elems) |->
                      ToString(sc[elems[i]].value) \o "<" \o elems[i] \o ">"], " + "),
     exc |-> "none"]

\* EnumStateSpace.__str__: for each basis element in order, the name of its
\* scalar and the element as "name<element>", joined by " + ".  A scalar that
\* is an int has no .name.
StrResult(elems, sc) ==
    IF \E i \in 1 .. Len(elems) : sc[elems[i]].cls = "int"
    THEN [ret |-> "", exc |-> "AttributeError"]
    ELSE [ret |-> Join([i \in 1 .. Len(elems) |->
                           sc[elems[i]].name \o "<" \o elems[i] \o ">"], " + "),
          exc |-> "none"]

(***************************************************************************)
(* The program: one instance, built once, then called in any order.        *)
(***************************************************************************)

\* The record kept of a call: the operation, its basis_element argument (or
\* <<>>), what it returned ("" when it raised) and what it raised.
Call(op, sel, ret, exc) == [op |-> op, sel |-> sel, ret |-> ret, exc |-> exc]

\* The threads of an embedding system that shares the instance, and a thread
\* that is in no call.
Threads == {"t1", "t2"}
Idle == [pc |-> "idle", op |-> "none", sel |-> <<>>, new_value |-> 0]

\* No run of updates is under way.
NoRun == [key |-> "", n |-> 0, mark |-> <<>>]

Init ==
    /\ python \in Pythons
    /\ pc = "start"
    /\ basis_elements = <<>>
    /\ scalars = <<>>
    /\ enum_states = <<>>
    /\ last = Call("none", <<>>, "", "none")
    /\ run = NoRun
    /\ count = <<>>
    /\ lock = "free"
    /\ thread = [t \in Threads |-> Idle]

\* bar = EnumStateSpace(basis_elements=basis, enum_states=enum_arg)
\* When __init__ raises, the fields are those of the object it was building,
\* which nobody holds: pc = "failed" and no call can follow.
Construct(basis, enum_arg) ==
    /\ pc = "start"
    /\ LET r == InitResult(python, basis, enum_arg)
       IN /\ basis_elements' = r.basis_elements
          /\ scalars' = r.scalars
          /\ enum_states' = r.enum_states
          /\ pc' = IF r.exc = "none" THEN "live" ELSE "failed"
          /\ last' = Call("construct", <<>>, IF r.exc = "none" THEN "instance" ELSE "", r.exc)
    /\ UNCHANGED python

\* bar.update(basis_element, *args)
Update(basis_element, args) ==
    /\ pc = "live"
    /\ LET r == UpdateResult(python, enum_states, scalars, basis_element)
       IN /\ scalars' = r.scalars
          /\ last' = Call("update", basis_element, IF r.exc = "none" THEN "None" ELSE "", r.exc)
    /\ UNCHANGED <<python, pc, basis_elements, enum_states>>

\* bar.check()
Check ==
    /\ pc = "live"
    /\ LET r == CheckResult(python, enum_states, basis_elements, scalars)
       IN /\ scalars' = r.scalars
          /\ last' = Call("check", <<>>, r.ret, r.exc)
    /\ UNCHANGED <<python, pc, basis_elements, enum_states>>

\* bar.resolve(*args)
Resolve(args) ==
    /\ pc = "live"
    /\ LET r == ResolveResult(scalars, args)
       IN /\ scalars' = r.scalars
          /\ last' = Call("resolve", <<>>, r.ret, r.exc)
    /\ UNCHANGED <<python, pc, basis_elements, enum_states>>

\* What code outside the class can store in a slot of the public dict
\* bar.scalars that is no member of the instance's Enum: an int that is an
\* index, an int just past the last index, a member of another Enum.
CorruptValues(enum) == {IntObj(0), IntObj(EnumLen(enum)), OtherMember}

\* bar.scalars[key] = v, done from outside the class.
Corrupt(key, v) ==
    /\ pc = "live"
    /\ key \in DOMAIN scalars
    /\ scalars' = [scalars EXCEPT ![key] = v]
    /\ last' = Call("external", <<>>, "", "none")
    /\ UNCHANGED <<python, pc, basis_elements, enum_states>>

(***************************************************************************)
(* History: the run of consecutive successful update() calls on one key,   *)
(* with the dict as it was when the run began.  Any other call ends the    *)
(* run, and a run that has reached RunCap calls starts over.               *)
(***************************************************************************)

RunCap == 2 * MaxEnum

RunAfterUpdate(basis_element) ==
    LET key == Str(basis_element)
    IN run' = IF last'.exc # "none" THEN NoRun
              ELSE IF run.key = key /\ run.n < RunCap
                   THEN [run EXCEPT !.n = @ + 1]
                   ELSE [key |-> key, n |-> 1, mark |-> scalars]

EndRun == run' = NoRun

\* Single-threaded use in which the calls are not counted: the remaining
\* history and the embedding system's variables stay as they are.
Single == UNCHANGED <<count, lock, thread>>

\* The program used through its methods only.
Next ==
    \/ \E basis \in BasisChoices, enum_arg \in EnumChoices :
          Construct(basis, enum_arg) /\ EndRun /\ Single
    \/ \E basis_element \in IdPool, args \in ExtraArgs :
          Update(basis_element, args) /\ RunAfterUpdate(basis_element) /\ Single
    \/ Check /\ EndRun /\ Single
    \/ \E args \in ExtraArgs : Resolve(args) /\ EndRun /\ Single

Spec == Init /\ [][Next]_vars

\* The program used through its methods only, no run of updates being kept,
\* on an instance of one or two elements.
UpdateCall(basis_element) ==
    \E args \in ExtraArgs : Update(basis_element, args) /\ EndRun /\ Single

\* basis_elements arguments of one and of two elements.
FewBasisChoices == {<<StrId("e1")>>, <<StrId("e1"), StrId("e2")>>}

NextPlain ==
    \/ \E basis \in FewBasisChoices, enum_arg \in EnumChoices :
          Construct(basis, enum_arg) /\ EndRun /\ Single
    \/ \E basis_element \in IdPool : UpdateCall(basis_element)
    \/ Check /\ EndRun /\ Single
    \/ \E args \in ExtraArgs : Resolve(args) /\ EndRun /\ Single

\* The same, with a caller that keeps calling update with every selector: an
\* update that stays possible is made again.
SpecFair ==
    /\ Init
    /\ [][NextPlain]_vars
    /\ \A basis_element \in IdPool : WF_vars(UpdateCall(basis_element))

(***************************************************************************)
(* History: the update() calls completed on each name.                     *)
(***************************************************************************)

\* No update has been made on any name of the instance just built.
CountFromZero == count' = [key \in DOMAIN scalars' |-> 0]

\* A successful update(basis_element) is one more call completed on its name.
CountAfterUpdate(basis_element) ==
    count' = IF last'.exc = "none" THEN [count EXCEPT ![Str(basis_element)] = @ + 1]
             ELSE count

\* The calls are single-threaded.
NoThreads == UNCHANGED <<lock, thread>>

\* Most update() calls counted on one name.
MaxUpdates == 3

\* update(basis_element), counted; on an existing name only while fewer than
\* MaxUpdates calls have been counted on it.
CountedUpdate(basis_element) ==
    /\ pc = "live"
    /\ Str(basis_element) \in DOMAIN count => count[Str(basis_element)] < MaxUpdates
    /\ \E args \in ExtraArgs : Update(basis_element, args)
    /\ CountAfterUpdate(basis_element)
    /\ EndRun /\ NoThreads

\* The program used through its methods only, its updates counted.
NextCount ==
    \/ \E basis \in BasisChoices, enum_arg \in EnumChoices :
          Construct(basis, enum_arg) /\ CountFromZero /\ EndRun /\ NoThreads
    \/ \E basis_element \in IdPool : CountedUpdate(basis_element)
    \/ Check /\ EndRun /\ Single
    \/ \E args \in ExtraArgs : Resolve(args) /\ EndRun /\ Single

SpecCount == Init /\ [][NextCount]_vars

(***************************************************************************)
(* The module-level demonstration (lines 196-220), its six update() calls  *)
(* taken in any order.                                                     *)
(***************************************************************************)

DemoBasis == <<StrId("e1"), StrId("e2"), StrId("e3")>>
DemoEnum == <<"state0", "state1", "state2">>

\* How many times the demonstration updates each element.
DemoCalls == ("e1" :> 3) @@ ("e2" :> 1) @@ ("e3" :> 2)

\* bar = EnumStateSpace(basis_elements=["e1", "e2", "e3"], enum_states=[...])
DemoConstruct ==
    Construct(DemoBasis, DemoEnum) /\ CountFromZero /\ EndRun /\ NoThreads

\* One of the bar.update(...) calls still to be made.
DemoUpdate(basis_element) ==
    /\ pc = "live"
    /\ last.op \in {"construct", "update"}
    /\ count[Str(basis_element)] < DemoCalls[Str(basis_element)]
    /\ Update(basis_element, <<>>)
    /\ CountAfterUpdate(basis_element)
    /\ EndRun /\ NoThreads

\* bar.check(), once the updates are made
DemoCheck ==
    /\ pc = "live"
    /\ last.op = "update"
    /\ \A key \in DOMAIN count : count[key] = DemoCalls[key]
    /\ Check
    /\ EndRun /\ Single

\* bar.resolve()
DemoResolve ==
    /\ last.op = "check"
    /\ Resolve(<<>>)
    /\ EndRun /\ Single

\* print(bar): str(bar)
DemoStr ==
    /\ pc = "live"
    /\ last.op = "resolve"
    /\ LET r == StrResult(basis_elements, scalars)
       IN last' = Call("str", <<>>, r.ret, r.exc)
    /\ UNCHANGED <<python, pc, basis_elements, scalars, enum_states>>
    /\ EndRun /\ Single

NextDemo ==
    \/ DemoConstruct
    \/ \E i \in 1 .. Len(DemoBasis) : DemoUpdate(DemoBasis[i])
    \/ DemoCheck
    \/ DemoResolve
    \/ DemoStr

SpecDemo == Init /\ [][NextDemo]_vars

(***************************************************************************)
(* The instance shared by the threads of an embedding system, every call   *)
(* made while holding one lock.  update() is two steps, the read of the    *)
(* entry (lines 167-171) and the store of its successor (lines 172-173);   *)
(* check() and resolve() are one step each.                                *)
(***************************************************************************)

\* The calls a thread can make: the method and its basis_element (or <<>>).
ThreadCalls ==
    {<<"update", basis_element>> : basis_element \in IdPool}
        \cup {<<"check", <<>>>>, <<"resolve", <<>>>>}

\* The update() calls on the name of basis_element that threads are in.
InFlight(basis_element) ==
    Cardinality({u \in Threads : /\ thread[u].op = "update"
                                 /\ Str(thread[u].sel) = Str(basis_element)})

\* Thread t sets out to make a call; an update on an existing name only while
\* fewer than MaxUpdates are counted or under way on it.
Begin(t, op, sel) ==
    /\ pc = "live"
    /\ thread[t].pc = "idle"
    /\ (op = "update" /\ Str(sel) \in DOMAIN count) =>
          count[Str(sel)] + InFlight(sel) < MaxUpdates
    /\ thread' = [thread EXCEPT ![t] = [pc |-> "wait", op |-> op, sel |-> sel, new_value |-> 0]]
    /\ UNCHANGED <<python, pc, basis_elements, scalars, enum_states, last, count, lock>>
    /\ EndRun

\* Thread t takes the lock when no thread holds it.
Acquire(t) ==
    /\ thread[t].pc = "wait"
    /\ lock = "free"
    /\ lock' = t
    /\ thread' = [thread EXCEPT ![t].pc = "held"]
    /\ UNCHANGED <<python, pc, basis_elements, scalars, enum_states, last, count>>
    /\ EndRun

\* Thread t gives the lock back when its call has returned or raised.
Release(t) ==
    /\ thread[t].pc = "done"
    /\ lock' = "free"
    /\ thread' = [thread EXCEPT ![t] = Idle]
    /\ UNCHANGED <<python, pc, basis_elements, scalars, enum_states, last, count>>
    /\ EndRun

\* update(), lines 167-171: the entry is looked up and its successor's value
\* computed into the local new_value; a failed lookup ends the call.
UpdateRead(t) ==
    /\ thread[t].pc = "held"
    /\ thread[t].op = "update"
    /\ LET total_states == EnumLen(enum_states)
           basis_elem == Str(thread[t].sel)
           exc == IF basis_elem \notin DOMAIN scalars THEN "KeyError"
                  ELSE IF scalars[basis_elem].cls = "int" THEN "AttributeError"
                  ELSE "none"
       IN IF exc # "none"
          THEN /\ last' = Call("update", thread[t].sel, "", exc)
               /\ thread' = [thread EXCEPT ![t].pc = "done"]
          ELSE /\ last' = last
               /\ thread' = [thread EXCEPT ![t].pc = "write",
                                           ![t].new_value =
                                               NextValue(scalars[basis_elem].value, total_states)]
    /\ UNCHANGED <<python, pc, basis_elements, scalars, enum_states, count, lock>>
    /\ EndRun

\* update(), lines 172-173: the member of value new_value is stored, and the
\* call is one more completed on its name.
UpdateWrite(t) ==
    /\ thread[t].pc = "write"
    /\ LET new_state == EnumCall(python, enum_states, thread[t].new_value)
           basis_elem == Str(thread[t].sel)
       IN IF new_state.exc # "none"
          THEN /\ scalars' = scalars
               /\ last' = Call("update", thread[t].sel, "", new_state.exc)
          ELSE /\ scalars' = [scalars EXCEPT ![basis_elem] = new_state.obj]
               /\ last' = Call("update", thread[t].sel, "None", "none")
    /\ CountAfterUpdate(thread[t].sel)
    /\ thread' = [thread EXCEPT ![t].pc = "done"]
    /\ UNCHANGED <<python, pc, basis_elements, enum_states, lock>>
    /\ EndRun

\* check() made by thread t.
ThreadCheck(t) ==
    /\ thread[t].pc = "held"
    /\ thread[t].op = "check"
    /\ Check
    /\ thread' = [thread EXCEPT ![t].pc = "done"]
    /\ UNCHANGED <<count, lock>>
    /\ EndRun

\* resolve() made by thread t.
ThreadResolve(t) ==
    /\ thread[t].pc = "held"
    /\ thread[t].op = "resolve"
    /\ \E args \in ExtraArgs : Resolve(args)
    /\ thread' = [thread EXCEPT ![t].pc = "done"]
    /\ UNCHANGED <<count, lock>>
    /\ EndRun

NextLocked ==
    \/ \E basis \in FewBasisChoices, enum_arg \in EnumChoices :
          Construct(basis, enum_arg) /\ CountFromZero /\ EndRun /\ NoThreads
    \/ \E t \in Threads, call \in ThreadCalls : Begin(t, call[1], call[2])
    \/ \E t \in Threads : Acquire(t)
    \/ \E t \in Threads : UpdateRead(t)
    \/ \E t \in Threads : UpdateWrite(t)
    \/ \E t \in Threads : ThreadCheck(t)
    \/ \E t \in Threads : ThreadResolve(t)
    \/ \E t \in Threads : Release(t)

SpecLocked == Init /\ [][NextLocked]_vars

\* The program with its dict also written from outside.
NextCorrupt ==
    \/ \E basis \in BasisChoices, enum_arg \in EnumChoices :
          Construct(basis, enum_arg) /\ EndRun /\ Single
    \/ \E basis_element \in IdPool, args \in ExtraArgs :
          Update(basis_element, args) /\ EndRun /\ Single
    \/ Check /\ EndRun /\ Single
    \/ \E args \in ExtraArgs : Resolve(args) /\ EndRun /\ Single
    \/ \E key \in DOMAIN scalars, v \in CorruptValues(enum_states) :
          Corrupt(key, v) /\ EndRun /\ Single

SpecCorrupt == Init /\ [][NextCorrupt]_vars

(***************************************************************************)
(* Properties.                                                             *)
(***************************************************************************)

\* N, the number of labels of the instance's enumeration.
N == EnumLen(enum_states)

\* The key the latest update() call addressed.
LastKey == Str(last.sel)

\* The scalar x is a member of the instance's Enum: an index in [0, N).
Valid(x) == x.cls = "scalar_states" /\ IsIndex(enum_states, x.value) /\ x \in Members(enum_states)

\* C1 (invariant stability): for an instance built with N >= 1 labels, after any
\* sequence of update() calls on its basis elements every scalar held is an
\* index in [0, N), and a check() made there returns True.
C1_InvariantStability ==
    pc = "live" =>
        /\ N >= 1
        /\ \A key \in DOMAIN scalars : Valid(scalars[key])
        /\ CheckResult(python, enum_states, basis_elements, scalars).ret = "True"
        /\ last.op = "check" => (last.ret = "True" /\ last.exc = "none")

\* check() has just returned True in a state where updates have moved two
\* elements to different indices.
C1_Witness ==
    /\ pc = "live"
    /\ last.op = "check"
    /\ last.ret = "True"
    /\ \E a, b \in DOMAIN scalars :
          /\ scalars[a].value = N - 1
          /\ scalars[b].value = 1
          /\ N = MaxEnum

\* C2 (initialization): right after a successful construction every basis
\* element has a scalar, each scalar is the enumeration's first label (index 0),
\* and check() returns True.
C2_Initialization ==
    (last.op = "construct" /\ pc = "live") =>
        /\ DOMAIN scalars = Range(basis_elements)
        /\ \A key \in Range(basis_elements) :
              /\ scalars[key].cls = "scalar_states"
              /\ scalars[key].name = enum_states[1]
              /\ scalars[key].value = 0
        /\ CheckResult(python, enum_states, basis_elements, scalars).ret = "True"
        /\ CheckResult(python, enum_states, basis_elements, scalars).exc = "none"

\* An instance with two distinct basis elements has just been built over an
\* enumeration whose first label is not "state0".
C2_Witness ==
    /\ last.op = "construct"
    /\ pc = "live"
    /\ Cardinality(DOMAIN scalars) >= 2
    /\ N >= 2
    /\ enum_states[1] # "state0"
    /\ \A key \in DOMAIN scalars : scalars[key].name = enum_states[1]

\* C3 (cycle closure): a run of N * k consecutive update() calls on one basis
\* element (k >= 1; k = 0 is no call at all) leaves the whole dict as it was
\* when the run began; for N = 1 that is every single update.
C3_CycleClosure ==
    (pc = "live" /\ run.n > 0 /\ run.n % N = 0) => scalars = run.mark

\* Two full cycles have been made on one element of an enumeration of two or
\* more labels, starting from a state that was not the initial one.
C3_Witness ==
    /\ pc = "live"
    /\ N >= 2
    /\ run.n = 2 * N
    /\ scalars = run.mark
    /\ \E key \in DOMAIN scalars : scalars[key].value # 0

\* C4 (isolation): update(A) leaves the scalar of every basis element other
\* than A as it was, and leaves the set of keys as it was.
C4_Isolation ==
    [][last'.op = "update" =>
          /\ DOMAIN scalars' = DOMAIN scalars
          /\ \A key \in DOMAIN scalars :
                key # Str(last'.sel) => scalars'[key] = scalars[key]]_vars

\* A successful update has just been made on one element while another
\* element stands at a different, non-zero index.
C4_Witness ==
    /\ last.op = "update"
    /\ last.exc = "none"
    /\ \E key \in DOMAIN scalars :
          /\ key # LastKey
          /\ scalars[key].value # 0
          /\ scalars[key].value # scalars[LastKey].value

C7_UpdateRule ==
    [][/\ (last'.op = "update" /\ Str(last'.sel) \in DOMAIN scalars) =>
             LET key == Str(last'.sel)
                 i == scalars[key].value
                 j == IF i = N - 1 THEN 0 ELSE i + 1
             IN /\ last'.exc = "none"
                /\ scalars'[key].value = j
                /\ scalars'[key].name = enum_states[j + 1]
                /\ scalars'[key] \in Members(enum_states)
       /\ (pc = "live" /\ scalars' # scalars) =>
             (last'.op = "update" /\ last'.exc = "none")]_vars

\* A successful update has just taken an element of a three-label enumeration
\* from the last index back to index 0.
C7_Witness ==
    /\ last.op = "update"
    /\ last.exc = "none"
    /\ N = 3
    /\ run.n = 3
    /\ scalars[LastKey].value = 0

\* C8 (check is pure): in every state, valid or not, check() leaves the basis
\* elements, the enumeration and every entry of the dict unchanged, whatever
\* it returns or raises; and an update() that follows a check() that did not
\* return True still increments an element whose scalar is a member.
C8_CheckPure ==
    [][/\ last'.op = "check" =>
             /\ scalars' = scalars
             /\ basis_elements' = basis_elements
             /\ enum_states' = enum_states
             /\ pc' = pc
       /\ (/\ last.op = "check"
           /\ last.ret # "True"
           /\ last'.op = "update"
           /\ Str(last'.sel) \in DOMAIN scalars
           /\ Valid(scalars[Str(last'.sel)])) =>
             /\ last'.exc = "none"
             /\ scalars'[Str(last'.sel)].value =
                   (scalars[Str(last'.sel)].value + 1) % N]_vars

\* check() has just returned False: some scalar is not in the enumeration.
C8_Witness ==
    /\ last.op = "check"
    /\ last.ret = "False"
    /\ \E key \in DOMAIN scalars : ~Valid(scalars[key])
    /\ \E key \in DOMAIN scalars : Valid(scalars[key]) /\ scalars[key].value # 0

\* The scalar x is an index in [0, N): a member of the instance's Enum, or the
\* bare integer of such an index.
IsIndexScalar(x) == x.cls \in {"scalar_states", "int"} /\ IsIndex(enum_states, x.value)

\* C9 (check decides validity): whatever the dict holds, check() raises nothing
\* and returns True exactly when every scalar is an index in [0, N).
C9_CheckDecides ==
    last.op = "check" =>
        /\ last.exc = "none"
        /\ last.ret \in {"True", "False"}
        /\ (last.ret = "True") <=> (\A key \in DOMAIN scalars : IsIndexScalar(scalars[key]))

\* C10 (resolve is a no-op): resolve(), whatever its arguments, returns None,
\* raises nothing, and leaves every scalar, the basis elements and the
\* enumeration unchanged.
C10_ResolveNoOp ==
    [][last'.op = "resolve" =>
          /\ last'.ret = "None"
          /\ last'.exc = "none"
          /\ scalars' = scalars
          /\ basis_elements' = basis_elements
          /\ enum_states' = enum_states
          /\ pc' = pc]_vars

\* resolve() has just returned None on an instance whose elements stand at
\* different indices.
C10_Witness ==
    /\ last.op = "resolve"
    /\ last.ret = "None"
    /\ \E a, b \in DOMAIN scalars : scalars[a].value < scalars[b].value

\* The six update() calls of the demonstration have been made.
DemoDone == pc = "live" /\ \A key \in DOMAIN count : count[key] = DemoCalls[key]

\* The string the demonstration is to show.
DemoDisplay == "state0<e1> + state1<e2> + state2<e3>"

\* C11 (end-to-end scenario and display): with basis elements e1, e2, e3 and
\* labels state0, state1, state2, once update has been called three times on
\* e1, once on e2 and twice on e3, in any order, e1 is at state0, e2 at state1
\* and e3 at state2, the display string is "state0<e1> + state1<e2> +
\* state2<e3>", check() returns True and resolve() returns None.
C11_EndToEnd ==
    DemoDone =>
        /\ basis_elements = <<"e1", "e2", "e3">>
        /\ scalars["e1"].name = "state0"
        /\ scalars["e2"].name = "state1"
        /\ scalars["e3"].name = "state2"
        /\ StrResult(basis_elements, scalars) = [ret |-> DemoDisplay, exc |-> "none"]
        /\ last.op = "check" => (last.ret = "True" /\ last.exc = "none")
        /\ last.op = "resolve" => (last.ret = "None" /\ last.exc = "none")
        /\ last.op = "str" => (last.ret = DemoDisplay /\ last.exc = "none")

\* The demonstration has run to its end: the string has been produced.
C11_Witness ==
    /\ DemoDone
    /\ last.op = "str"
    /\ last.ret = DemoDisplay

\* The statement of C12 as the specification words it: a successful update(A)
\* changes A's scalar and no other, whatever N >= 1 is.
C12_AsSpecified ==
    [][(last'.op = "update" /\ last'.exc = "none") =>
          /\ scalars'[Str(last'.sel)] # scalars[Str(last'.sel)]
          /\ \A key \in DOMAIN scalars :
                key # Str(last'.sel) => scalars'[key] = scalars[key]]_vars

\* C12 (one scalar per update), amended: a successful update(A) changes no
\* scalar other than A's, and changes A's scalar exactly when N >= 2; with a
\* single label the update leaves A at index 0 and the dict as it was.
C12_OneScalarChanges ==
    [][(last'.op = "update" /\ last'.exc = "none") =>
          /\ (scalars'[Str(last'.sel)] # scalars[Str(last'.sel)]) <=> (N >= 2)
          /\ N = 1 => scalars' = scalars
          /\ \A key \in DOMAIN scalars :
                key # Str(last'.sel) => scalars'[key] = scalars[key]]_vars

\* A successful update on an enumeration of two or more labels has just moved
\* its element away from where another element stands.
C12_Witness ==
    /\ last.op = "update"
    /\ last.exc = "none"
    /\ N >= 2
    /\ Cardinality(DOMAIN scalars) = 2
    /\ \E key \in DOMAIN scalars : key # LastKey /\ scalars[key] # scalars[LastKey]

\* C13 (structural immutability): once the instance is built, no update (failed
\* ones included), check or resolve changes the basis-element sequence or the
\* enumeration, and the keys of the dict are always exactly the basis-element
\* names fixed at construction.
C13_StructuralImmutability ==
    [][/\ pc' = "live" => DOMAIN scalars' = Range(basis_elements')
       /\ pc = "live" =>
             /\ pc' = "live"
             /\ basis_elements' = basis_elements
             /\ enum_states' = enum_states
             /\ DOMAIN scalars' = DOMAIN scalars]_vars

\* An update with an unknown selector has just failed on an instance of two
\* names over three labels, one of whose scalars had been moved before.
C13_Witness ==
    /\ last.op = "update"
    /\ last.exc = "KeyError"
    /\ N = 3
    /\ Len(basis_elements) = 2
    /\ DOMAIN scalars = Range(basis_elements)
    /\ Cardinality(DOMAIN scalars) = 2
    /\ \E key \in DOMAIN scalars : scalars[key].value = 2

\* C14 (the per-element cycle): in every state of a live instance update(A) on
\* an existing element A can be called and does not fail; and, the caller
\* updating A again and again, A comes to stand at every index j in [0, N),
\* index 0 included, again and again.
C14_CycleLive ==
    /\ [](pc = "live" =>
             \A basis_element \in IdPool :
                Str(basis_element) \in DOMAIN scalars =>
                   /\ ENABLED Update(basis_element, <<>>)
                   /\ UpdateResult(python, enum_states, scalars, basis_element).exc = "none")
    /\ \A basis_element \in IdPool : \A j \in 0 .. MaxEnum - 1 :
          [](/\ pc = "live"
             /\ Str(basis_element) \in DOMAIN scalars
             /\ j < N
             => <>(/\ Str(basis_element) \in DOMAIN scalars
                   /\ scalars[Str(basis_element)].value = j))

\* An update has just brought an element of a three-label enumeration to the
\* last index, from which the next update rolls over.
C14_Witness ==
    /\ last.op = "update"
    /\ last.exc = "none"
    /\ N = 3
    /\ scalars[LastKey].value = N - 1
    /\ \A key \in DOMAIN scalars : key # LastKey => scalars[key].value = 0

\* The dict after update(first) and then update(second), both succeeding.
AfterBoth(first, second) ==
    UpdateResult(python, enum_states,
                 UpdateResult(python, enum_states, scalars, first).scalars,
                 second).scalars

\* C15 (counting invariant): in every state reached from construction each
\* basis element stands at index (number of successful update calls made on
\* it) mod N, so the dict is determined by the per-element counts alone; and
\* updates of two elements give the same dict in either order.
C15_Counting ==
    pc = "live" =>
        /\ DOMAIN count = DOMAIN scalars
        /\ \A key \in DOMAIN scalars : scalars[key].value = count[key] % N
        /\ scalars = [key \in DOMAIN count |-> Member(enum_states, count[key] % N)]
        /\ \A a, b \in IdPool :
              (Str(a) \in DOMAIN scalars /\ Str(b) \in DOMAIN scalars) =>
                 AfterBoth(a, b) = AfterBoth(b, a)

\* Of two elements of a two-label enumeration one has been updated three
\* times, past the rollover, and the other once.
C15_Witness ==
    /\ pc = "live"
    /\ N = 2
    /\ \E a, b \in DOMAIN count :
          /\ count[a] = N + 1
          /\ a # b
          /\ count[b] = 1
          /\ scalars[a].value = 1
          /\ scalars[b].value = 1

\* The string under which an identifier is to be stored and looked up: a str
\* as it is, the integer 3 as "3".
Shown(e) == IF e = IntId(3) THEN "3" ELSE e[2]

\* Does name stand at more than one place of the sequence?
Repeated(elems, name) == Cardinality({i \in 1 .. Len(elems) : elems[i] = name}) > 1

\* C16 (name normalization and duplicates): the constructor stores each name
\* in string form, in order, with one dict entry per distinct string; update
\* with the integer 3 advances the element stored as "3" instead of failing;
\* and one update of a name that stands more than once in the sequence
\* advances its single scalar by exactly one step.
C16_Normalization ==
    [][/\ pc = "start" =>
             \A basis \in BasisChoices, enum_arg \in EnumChoices :
                (Construct(basis, enum_arg) /\ pc' = "live") =>
                   /\ basis_elements' = [i \in 1 .. Len(basis) |-> Shown(basis[i])]
                   /\ DOMAIN scalars' = {Shown(basis[i]) : i \in 1 .. Len(basis)}
       /\ (last'.op = "update" /\ last'.sel = IntId(3) /\ "3" \in DOMAIN scalars) =>
             /\ last'.exc = "none"
             /\ scalars'["3"].value = (scalars["3"].value + 1) % N
       /\ (last'.op = "update" /\ Repeated(basis_elements, Shown(last'.sel))) =>
             /\ last'.exc = "none"
             /\ scalars'[Shown(last'.sel)].value = (scalars[Shown(last'.sel)].value + 1) % N
             /\ \A i, j \in 1 .. Len(basis_elements) :
                   basis_elements[i] = basis_elements[j] =>
                      scalars'[basis_elements'[i]] = scalars'[basis_elements'[j]]]_vars

\* update(3) has just advanced, by one step, the single scalar of an instance
\* whose sequence holds the name "3" twice.
C16_Witness ==
    /\ last.op = "update"
    /\ last.sel = IntId(3)
    /\ last.exc = "none"
    /\ basis_elements = <<"3", "3">>
    /\ DOMAIN scalars = {"3"}
    /\ N = 3
    /\ run.n = 1
    /\ scalars["3"].value = 1

\* The threads that are inside a call, the lock taken.
Inside == {t \in Threads : thread[t].pc \in {"held", "write", "done"}}

\* C17 (concurrent use under one lock): with every call made under the one
\* lock, at most one thread is inside a call; each name's scalar is the
\* member of index (updates completed on it) mod N at every moment, so also
\* when every thread is back from its calls; and every check() returns True.
C17_Serializable ==
    pc = "live" =>
        /\ Cardinality(Inside) <= 1
        /\ \A t \in Inside : lock = t
        /\ DOMAIN count = DOMAIN scalars
        /\ \A key \in DOMAIN scalars : scalars[key] = Member(enum_states, count[key] % N)
        /\ last.op = "check" => (last.ret = "True" /\ last.exc = "none")

\* A thread has just completed the second update on a name, the scalar two
\* steps on, and still holds the lock while the other thread, already set out
\* on an update of the same name, waits for it.
C17_Witness ==
    /\ pc = "live"
    /\ N = 3
    /\ \E t, u \in Threads :
          /\ thread[t].pc = "done" /\ thread[t].op = "update" /\ lock = t
          /\ thread[u].pc = "wait" /\ thread[u].op = "update"
          /\ Str(thread[u].sel) = Str(thread[t].sel)
          /\ last = Call("update", thread[t].sel, "None", "none")
          /\ count[Str(thread[t].sel)] = 2
          /\ scalars[Str(thread[t].sel)].value = 2

====
